---- MODULE Spec2Model ----
(***************************************************************************)
(* Ticket9ja backend: events, tickets and door scans.                      *)
(*                                                                         *)
(* The store is the database configured by default in database.py (a      *)
(* SQLite file): integer primary keys are row ids, so a new row gets the   *)
(* largest id in use plus one, and foreign keys are not enforced.  Every   *)
(* request handler runs in its own SQLAlchemy session (get_db): a row it   *)
(* has loaded is a private copy, a commit writes only the columns the      *)
(* handler assigned (UPDATE ... WHERE id = pk) and expires the copies, so  *)
(* the next attribute access reloads the row.  Handlers of different       *)
(* server workers interleave at their database statements; each statement  *)
(* and each commit is one atomic step.                                     *)
(*                                                                         *)
(* Not modelled: authentication, the list/get read routes, the contents of *)
(* images and e-mails, the created_at/updated_at columns.                  *)
(***************************************************************************)
EXTENDS Integers, Sequences, FiniteSets, TLC

\* ---------------------------------------------------------------- bounds
NumProcs == 2
MaxEvents == 1
MaxTickets == 2
MaxClock == 2
MaxRand == 1
MaxQuantity == 2

Procs == 1..NumProcs
EventIds == 1..MaxEvents
TicketRowIds == 1..MaxTickets
Times == 1..MaxClock
Rand == 1..MaxRand

\* An optional string that is not supplied.
None == "None"
\* A path or identifier that is not set.
NoPath == <<>>
\* used_at of a ticket that is not redeemed (the column is nullable).
Null == 0

\* ------------------------------------------------------- request payloads
\* EventCreate bodies: two records differing in every field.
EventData ==
  { [name |-> "n1", event_date |-> "d1", event_time |-> "t1",
     venue |-> "v1", city |-> "c1", description |-> "x1"],
    [name |-> "n2", event_date |-> "d2", event_time |-> "t2",
     venue |-> "v2", city |-> "c2", description |-> "x2"] }

\* EventUpdate bodies (every field is required): one that changes the venue
\* of the first EventCreate body only, one that changes every field of it.
EventUpdateData ==
  { [name |-> "n1", event_date |-> "d1", event_time |-> "t1",
     venue |-> "v2", city |-> "c1", description |-> "x1"],
    [name |-> "n2", event_date |-> "d2", event_time |-> "t2",
     venue |-> "v2", city |-> "c2", description |-> "x2"] }

EventFields == {"name", "event_date", "event_time", "venue", "city", "description"}

\* TicketCreate bodies (without the quantity).
TicketData ==
  { [attendee_name |-> "a1", attendee_email |-> "e1", ticket_type |-> "k1"] }

\* TicketUpdate bodies: every field is optional.
TicketUpdateData ==
  { [attendee_name |-> "a2", attendee_email |-> None, ticket_type |-> None],
    [attendee_name |-> "a2", attendee_email |-> "e2", ticket_type |-> "k2"] }

Quantities == 0..MaxQuantity

\* Extensions of an uploaded design file.
Extensions == {".png"}

VARIABLES
  events,    \* table events: row id -> row
  tickets,   \* table tickets: row id -> row
  files,     \* files under uploads/ and tickets/
  clock,     \* datetime.utcnow(), in seconds
  pc,        \* per worker: the statement its handler is at
  loc,       \* per worker: the handler's local variables and session copies
  resp       \* per worker: the response it returned, kept until the next
             \* request arrives at the server

vars == <<events, tickets, files, clock, pc, loc, resp>>

\* ---------------------------------------------------------------- helpers
Idle == [op |-> "none"]

Max(S) == CHOOSE x \in S : \A y \in S : y <= x

\* SQLite row id of an inserted row: the largest id in use plus one.
NextRowId(table) == IF DOMAIN table = {} THEN 1 ELSE Max(DOMAIN table) + 1

Insert(table, id, row) == [i \in DOMAIN table \cup {id} |->
                             IF i = id THEN row ELSE table[i]]

Remove(table, ids) == [i \in DOMAIN table \ ids |-> table[i]]

\* os.path.join(QR_DIR, f"qr_{ticket_id}.png")
QrPath(tid) == <<"qr", tid>>
\* os.path.join(TICKETS_DIR, f"ticket_{ticket_id}.jpg")
ImagePath(tid) == <<"ticket", tid>>
\* os.path.join(UPLOAD_DIR, f"design_{event_id}{file_extension}")
DesignPath(eid, ext) == <<"design", eid, ext>>

\* generate_ticket_id: "TKT-" + second-resolution timestamp + random part.
TicketIdentifiers == Times \X Rand
generate_ticket_id(now, r) == <<now, r>>

\* Rows of table tickets with the given external identifier
\* (db.query(Ticket).filter(Ticket.ticket_id == x).first()).
TicketByIdentifier(tid) == {i \in DOMAIN tickets : tickets[i].ticket_id = tid}

TicketsOfEvent(eid) == {i \in DOMAIN tickets : tickets[i].event_id = eid}

NoResponse == [status |-> "none"]

\* A handler returns: the worker is free again.
Respond(w, r) ==
  /\ resp' = [resp EXCEPT ![w] = r]
  /\ pc' = [pc EXCEPT ![w] = "idle"]
  /\ loc' = [loc EXCEPT ![w] = Idle]

\* A request arrives and is answered by its first statement.
Answer(w, r) ==
  /\ resp' = [v \in Procs |-> IF v = w THEN r ELSE NoResponse]
  /\ pc' = [pc EXCEPT ![w] = "idle"]
  /\ loc' = [loc EXCEPT ![w] = Idle]

\* A request arrives and its handler goes on to its next statement.
Start(w, label, l) ==
  /\ pc' = [pc EXCEPT ![w] = label]
  /\ loc' = [loc EXCEPT ![w] = l]
  /\ resp' = [v \in Procs |-> NoResponse]

\* A running handler goes on to its next statement.
Goto(w, label, l) ==
  /\ pc' = [pc EXCEPT ![w] = label]
  /\ loc' = [loc EXCEPT ![w] = l]
  /\ UNCHANGED resp

\* ------------------------------------------------------------------ Init
Init ==
  /\ events = <<>>
  /\ tickets = <<>>
  /\ files = {}
  /\ clock = 1
  /\ pc = [w \in Procs |-> "idle"]
  /\ loc = [w \in Procs |-> Idle]
  /\ resp = [w \in Procs |-> NoResponse]

\* datetime.utcnow() advances.
Tick ==
  /\ clock < MaxClock
  /\ clock' = clock + 1
  /\ UNCHANGED <<events, tickets, files, pc, loc, resp>>

\* ---------------------------------------------------------- event routes
\* POST /api/events
create_event(w, d) ==
  /\ pc[w] = "idle"
  /\ NextRowId(events) \in EventIds
  /\ LET id == NextRowId(events)
         row == [name |-> d.name, event_date |-> d.event_date,
                 event_time |-> d.event_time, venue |-> d.venue,
                 city |-> d.city, description |-> d.description,
                 ticket_design_path |-> NoPath,
                 is_active |-> TRUE, is_locked |-> FALSE]
     IN /\ events' = Insert(events, id, row)
        /\ Answer(w, [op |-> "create_event", status |-> "ok", event_id |-> id])
  /\ UNCHANGED <<tickets, files, clock>>

\* update_event_lookup without the is_locked check.
update_event_lookup_no_lock_check(w, eid, d) ==
  /\ pc[w] = "idle"
  /\ IF eid \notin DOMAIN events
       THEN Answer(w, [op |-> "update_event", status |-> "not_found", event_id |-> eid])
     ELSE Start(w, "update_event_commit",
               [op |-> "update_event", event_id |-> eid, data |-> d,
                loaded |-> events[eid]])
  /\ UNCHANGED <<events, tickets, files, clock>>

\* PUT /api/events/{event_id}: the lookup and the lock check.
update_event_lookup(w, eid, d) ==
  /\ pc[w] = "idle"
  /\ IF eid \notin DOMAIN events
       THEN Answer(w, [op |-> "update_event", status |-> "not_found", event_id |-> eid])
     ELSE IF events[eid].is_locked
       THEN Answer(w, [op |-> "update_event", status |-> "locked", event_id |-> eid])
     ELSE Start(w, "update_event_commit",
               [op |-> "update_event", event_id |-> eid, data |-> d,
                loaded |-> events[eid]])
  /\ UNCHANGED <<events, tickets, files, clock>>

\* The columns an UPDATE writes: those whose assigned value differs from the
\* value the session loaded.
Assigned(loaded, d, fields) == {f \in fields : d[f] # loaded[f]}

WriteColumns(row, d, cols) ==
  [f \in DOMAIN row |-> IF f \in cols THEN d[f] ELSE row[f]]

\* update_event_commit with every column of the session copy written back,
\* is_locked, is_active and ticket_design_path as loaded included.
update_event_commit_whole_row(w) ==
  /\ pc[w] = "update_event_commit"
  /\ LET l == loc[w]
     IN IF l.event_id \notin DOMAIN events
          THEN /\ Respond(w, [op |-> "update_event", status |-> "error", event_id |-> l.event_id])
               /\ UNCHANGED events
          ELSE /\ events' = [events EXCEPT ![l.event_id] =
                               WriteColumns(l.loaded, l.data, EventFields)]
               /\ Respond(w, [op |-> "update_event", status |-> "ok",
                              event_id |-> l.event_id])
  /\ UNCHANGED <<tickets, files, clock>>

\* PUT /api/events/{event_id}: the six assignments and db.commit().
update_event_commit(w) ==
  /\ pc[w] = "update_event_commit"
  /\ LET l == loc[w]
         cols == Assigned(l.loaded, l.data, EventFields)
     IN IF cols # {} /\ l.event_id \notin DOMAIN events
          THEN /\ Respond(w, [op |-> "update_event", status |-> "error", event_id |-> l.event_id])
               /\ UNCHANGED events
          ELSE /\ events' = IF cols = {} THEN events
                            ELSE [events EXCEPT ![l.event_id] = WriteColumns(@, l.data, cols)]
               /\ Respond(w, [op |-> "update_event",
                              status |-> IF l.event_id \in DOMAIN events THEN "ok" ELSE "error",
                              event_id |-> l.event_id])
  /\ UNCHANGED <<tickets, files, clock>>

\* DELETE /api/events/{event_id}: the lookup.
delete_event_lookup(w, eid) ==
  /\ pc[w] = "idle"
  /\ IF eid \notin DOMAIN events
       THEN Answer(w, [op |-> "delete_event", status |-> "not_found", event_id |-> eid])
       ELSE Start(w, "delete_event_commit", [op |-> "delete_event", event_id |-> eid])
  /\ UNCHANGED <<events, tickets, files, clock>>

\* DELETE /api/events/{event_id}: the bulk delete of the event's tickets,
\* db.delete(event) and db.commit(), one transaction.  No file is removed.
delete_event_commit(w) ==
  /\ pc[w] = "delete_event_commit"
  /\ LET eid == loc[w].event_id
     IN /\ tickets' = Remove(tickets, TicketsOfEvent(eid))
        /\ events' = Remove(events, {eid})
        /\ Respond(w, [op |-> "delete_event", status |-> "ok", event_id |-> eid])
  /\ UNCHANGED <<files, clock>>

\* toggle_event_active_lookup with the is_locked check of update_event: a
\* locked event is refused.
toggle_event_active_lookup_lock_check(w, eid) ==
  /\ pc[w] = "idle"
  /\ IF eid \notin DOMAIN events
       THEN Answer(w, [op |-> "toggle", status |-> "not_found", event_id |-> eid])
     ELSE IF events[eid].is_locked
       THEN Answer(w, [op |-> "toggle", status |-> "locked", event_id |-> eid])
     ELSE Start(w, "toggle_event_active_commit",
                [op |-> "toggle", event_id |-> eid,
                 is_active |-> ~events[eid].is_active])
  /\ UNCHANGED <<events, tickets, files, clock>>

\* POST /api/events/{event_id}/toggle-active: the lookup.
toggle_event_active_lookup(w, eid) ==
  /\ pc[w] = "idle"
  /\ IF eid \notin DOMAIN events
       THEN Answer(w, [op |-> "toggle", status |-> "not_found", event_id |-> eid])
       ELSE Start(w, "toggle_event_active_commit",
                 [op |-> "toggle", event_id |-> eid,
                  is_active |-> ~events[eid].is_active])
  /\ UNCHANGED <<events, tickets, files, clock>>

\* event.is_active = not event.is_active; db.commit(); db.refresh(event)
toggle_event_active_commit(w) ==
  /\ pc[w] = "toggle_event_active_commit"
  /\ LET l == loc[w]
     IN IF l.event_id \notin DOMAIN events
          THEN /\ Respond(w, [op |-> "toggle", status |-> "error", event_id |-> l.event_id])
               /\ UNCHANGED events
          ELSE /\ events' = [events EXCEPT ![l.event_id].is_active = l.is_active]
               /\ Respond(w, [op |-> "toggle", status |-> "ok", event_id |-> l.event_id])
  /\ UNCHANGED <<tickets, files, clock>>

\* POST /api/events/{event_id}/upload-design: lookup, content-type check and
\* the copy of the upload to design_<event_id><ext>.
upload_ticket_design_lookup(w, eid, isImage, ext) ==
  /\ pc[w] = "idle"
  /\ IF eid \notin DOMAIN events
       THEN /\ Answer(w, [op |-> "upload", status |-> "not_found", event_id |-> eid])
            /\ UNCHANGED files
     ELSE IF ~isImage
       THEN /\ Answer(w, [op |-> "upload", status |-> "bad_request", event_id |-> eid])
            /\ UNCHANGED files
     ELSE /\ files' = files \cup {DesignPath(eid, ext)}
          /\ Start(w, "upload_ticket_design_commit",
                  [op |-> "upload", event_id |-> eid,
                   path |-> DesignPath(eid, ext),
                   loaded |-> events[eid].ticket_design_path])
  /\ UNCHANGED <<events, tickets, clock>>

\* event.ticket_design_path = file_path; db.commit(); db.refresh(event)
upload_ticket_design_commit(w) ==
  /\ pc[w] = "upload_ticket_design_commit"
  /\ LET l == loc[w]
         changed == l.path # l.loaded
     IN IF l.event_id \notin DOMAIN events
          THEN /\ Respond(w, [op |-> "upload", status |-> "error", event_id |-> l.event_id])
               /\ UNCHANGED events
          ELSE /\ events' = IF changed
                              THEN [events EXCEPT ![l.event_id].ticket_design_path = l.path]
                              ELSE events
               /\ Respond(w, [op |-> "upload", status |-> "ok", event_id |-> l.event_id])
  /\ UNCHANGED <<tickets, files, clock>>

\* --------------------------------------------------------- ticket routes
\* POST /api/events/{event_id}/tickets: the event lookup.
create_tickets_lookup(w, eid, d, q) ==
  /\ pc[w] = "idle"
  /\ LET l == [op |-> "create_tickets", event_id |-> eid, data |-> d,
               quantity |-> q, created |-> <<>>, sent |-> <<>>,
               expired |-> FALSE, ticket_id |-> NoPath, row |-> 0]
     IN IF eid \notin DOMAIN events
          THEN Answer(w, [op |-> "create_tickets", status |-> "not_found",
                           event_id |-> eid])
        ELSE IF ~events[eid].is_locked
          THEN Start(w, "create_tickets_lock", l)
        ELSE IF q <= 0
          THEN Answer(w, [op |-> "create_tickets", status |-> "ok",
                           event_id |-> eid, quantity |-> q, created |-> <<>>])
        ELSE Start(w, "create_tickets_generate", l)
  /\ UNCHANGED <<events, tickets, files, clock>>

\* if not event.is_locked: event.is_locked = True; db.commit()
create_tickets_lock(w) ==
  /\ pc[w] = "create_tickets_lock"
  /\ LET l == loc[w]
     IN IF l.event_id \notin DOMAIN events
          THEN /\ Respond(w, [op |-> "create_tickets", status |-> "error",
                              event_id |-> l.event_id])
               /\ UNCHANGED events
          ELSE /\ events' = [events EXCEPT ![l.event_id].is_locked = TRUE]
               /\ IF l.quantity <= 0
                    THEN Respond(w, [op |-> "create_tickets", status |-> "ok",
                                     event_id |-> l.event_id,
                                     quantity |-> l.quantity, created |-> <<>>])
                    ELSE Goto(w, "create_tickets_generate", [l EXCEPT !.expired = TRUE])
  /\ UNCHANGED <<tickets, files, clock>>

\* create_tickets_generate with a failure of generate_qr_code or of
\* render_ticket_image swallowed: the unit goes on to its insert.
create_tickets_generate_unchecked(w, r, encoded, rendered) ==
  /\ pc[w] = "create_tickets_generate"
  /\ LET l == loc[w]
         tid == generate_ticket_id(clock, r)
     IN IF l.expired /\ l.event_id \notin DOMAIN events
          THEN /\ files' = files \cup (IF encoded THEN {QrPath(tid)} ELSE {})
               /\ Respond(w, [op |-> "create_tickets", status |-> "error",
                              event_id |-> l.event_id])
        ELSE /\ files' = files \cup (IF encoded THEN {QrPath(tid)} ELSE {})
                               \cup (IF encoded /\ rendered
                                       THEN {ImagePath(tid)} ELSE {})
             /\ Goto(w, "create_tickets_insert",
                     [l EXCEPT !.ticket_id = tid, !.expired = FALSE])
  /\ UNCHANGED <<events, tickets, clock>>

\* create_tickets_generate in a batch that is one transaction: a failure of
\* generate_qr_code or of render_ticket_image takes back the rows of the
\* units before it.
create_tickets_generate_rollback(w, r, encoded, rendered) ==
  /\ pc[w] = "create_tickets_generate"
  /\ LET l == loc[w]
         tid == generate_ticket_id(clock, r)
         earlier == {i \in DOMAIN tickets :
                       \E n \in DOMAIN l.created : tickets[i].ticket_id = l.created[n]}
     IN IF ~encoded
          THEN /\ UNCHANGED files
               /\ tickets' = Remove(tickets, earlier)
               /\ Respond(w, [op |-> "create_tickets", status |-> "error",
                              event_id |-> l.event_id,
                              cause |-> "generate_qr_code", ticket_id |-> tid])
        ELSE IF l.expired /\ l.event_id \notin DOMAIN events
          THEN /\ files' = files \cup {QrPath(tid)}
               /\ UNCHANGED tickets
               /\ Respond(w, [op |-> "create_tickets", status |-> "error",
                              event_id |-> l.event_id])
        ELSE IF ~rendered
          THEN /\ files' = files \cup {QrPath(tid)}
               /\ tickets' = Remove(tickets, earlier)
               /\ Respond(w, [op |-> "create_tickets", status |-> "error",
                              event_id |-> l.event_id,
                              cause |-> "render_ticket_image", ticket_id |-> tid])
        ELSE /\ files' = files \cup {QrPath(tid), ImagePath(tid)}
             /\ UNCHANGED tickets
             /\ Goto(w, "create_tickets_insert",
                     [l EXCEPT !.ticket_id = tid, !.expired = FALSE])
  /\ UNCHANGED <<events, clock>>

\* One unit of the loop up to the rendered image: generate_ticket_id,
\* generate_qr_code, the reload of the expired event, render_ticket_image.
\* An exception of either function ends the request.
create_tickets_generate(w, r, encoded, rendered) ==
  /\ pc[w] = "create_tickets_generate"
  /\ LET l == loc[w]
         tid == generate_ticket_id(clock, r)
     IN IF ~encoded
          THEN /\ UNCHANGED files
               /\ Respond(w, [op |-> "create_tickets", status |-> "error",
                              event_id |-> l.event_id,
                              cause |-> "generate_qr_code", ticket_id |-> tid])
        ELSE IF l.expired /\ l.event_id \notin DOMAIN events
          THEN /\ files' = files \cup {QrPath(tid)}
               /\ Respond(w, [op |-> "create_tickets", status |-> "error",
                              event_id |-> l.event_id])
        ELSE IF ~rendered
          THEN /\ files' = files \cup {QrPath(tid)}
               /\ Respond(w, [op |-> "create_tickets", status |-> "error",
                              event_id |-> l.event_id,
                              cause |-> "render_ticket_image", ticket_id |-> tid])
        ELSE /\ files' = files \cup {QrPath(tid), ImagePath(tid)}
             /\ Goto(w, "create_tickets_insert",
                     [l EXCEPT !.ticket_id = tid, !.expired = FALSE])
  /\ UNCHANGED <<events, tickets, clock>>

\* create_tickets_insert on a column ticket_id without the unique constraint.
create_tickets_insert_not_unique(w) ==
  /\ pc[w] = "create_tickets_insert"
  /\ LET l == loc[w]
         id == NextRowId(tickets)
         row == [ticket_id |-> l.ticket_id, event_id |-> l.event_id,
                 attendee_name |-> l.data.attendee_name,
                 attendee_email |-> l.data.attendee_email,
                 ticket_type |-> l.data.ticket_type,
                 qr_code_path |-> QrPath(l.ticket_id),
                 ticket_image_path |-> ImagePath(l.ticket_id),
                 is_used |-> FALSE, used_at |-> Null]
     IN IF FALSE
          THEN /\ Respond(w, [op |-> "create_tickets", status |-> "error",
                              event_id |-> l.event_id,
                              cause |-> "IntegrityError",
                              ticket_id |-> l.ticket_id])
               /\ UNCHANGED tickets
          ELSE /\ id \in TicketRowIds
               /\ tickets' = Insert(tickets, id, row)
               /\ Goto(w, "create_tickets_refresh",
                       [l EXCEPT !.row = id, !.expired = TRUE])
  /\ UNCHANGED <<events, files, clock>>

\* new_ticket = Ticket(...); db.add(new_ticket); db.commit()
create_tickets_insert(w) ==
  /\ pc[w] = "create_tickets_insert"
  /\ LET l == loc[w]
         id == NextRowId(tickets)
         row == [ticket_id |-> l.ticket_id, event_id |-> l.event_id,
                 attendee_name |-> l.data.attendee_name,
                 attendee_email |-> l.data.attendee_email,
                 ticket_type |-> l.data.ticket_type,
                 qr_code_path |-> QrPath(l.ticket_id),
                 ticket_image_path |-> ImagePath(l.ticket_id),
                 is_used |-> FALSE, used_at |-> Null]
     IN IF TicketByIdentifier(l.ticket_id) # {}
          THEN /\ Respond(w, [op |-> "create_tickets", status |-> "error",
                              event_id |-> l.event_id,
                              cause |-> "IntegrityError",
                              ticket_id |-> l.ticket_id])
               /\ UNCHANGED tickets
          ELSE /\ id \in TicketRowIds
               /\ tickets' = Insert(tickets, id, row)
               /\ Goto(w, "create_tickets_refresh",
                       [l EXCEPT !.row = id, !.expired = TRUE])
  /\ UNCHANGED <<events, files, clock>>

\* db.refresh(new_ticket)
create_tickets_refresh(w) ==
  /\ pc[w] = "create_tickets_refresh"
  /\ LET l == loc[w]
     IN IF l.row \notin DOMAIN tickets
          THEN Respond(w, [op |-> "create_tickets", status |-> "error",
                           event_id |-> l.event_id])
          ELSE Goto(w, "create_tickets_send", l)
  /\ UNCHANGED <<events, tickets, files, clock>>

\* create_tickets_send with the lock step inside the loop: every further
\* unit starts at the lock step again.
create_tickets_send_lock_in_loop(w, sent) ==
  /\ pc[w] = "create_tickets_send"
  /\ LET l == loc[w]
         created == Append(l.created, l.ticket_id)
     IN IF l.event_id \notin DOMAIN events
          THEN Respond(w, [op |-> "create_tickets", status |-> "error",
                           event_id |-> l.event_id])
        ELSE IF Len(created) = l.quantity
          THEN Respond(w, [op |-> "create_tickets", status |-> "ok",
                           event_id |-> l.event_id, quantity |-> l.quantity,
                           created |-> created])
        ELSE Goto(w, "create_tickets_lock",
                  [l EXCEPT !.created = created, !.expired = FALSE,
                            !.sent = Append(l.sent, sent)])
  /\ UNCHANGED <<events, tickets, files, clock>>

\* create_tickets_send with the result of send_ticket_email tested: a failed
\* send ends the request with an error.
create_tickets_send_raises(w, sent) ==
  /\ pc[w] = "create_tickets_send"
  /\ LET l == loc[w]
         created == Append(l.created, l.ticket_id)
     IN IF l.event_id \notin DOMAIN events \/ ~sent
          THEN Respond(w, [op |-> "create_tickets", status |-> "error",
                           event_id |-> l.event_id])
        ELSE IF Len(created) = l.quantity
          THEN Respond(w, [op |-> "create_tickets", status |-> "ok",
                           event_id |-> l.event_id, quantity |-> l.quantity,
                           created |-> created])
        ELSE Goto(w, "create_tickets_generate",
                  [l EXCEPT !.created = created, !.expired = FALSE,
                            !.sent = Append(l.sent, sent)])
  /\ UNCHANGED <<events, tickets, files, clock>>

\* send_ticket_email(..., event.name, ...) with the expired event reloaded (its
\* result, kept here in sent, is dropped by the handler);
\* created_tickets.append(new_ticket); the loop test; return created_tickets.
create_tickets_send(w, sent) ==
  /\ pc[w] = "create_tickets_send"
  /\ LET l == loc[w]
         created == Append(l.created, l.ticket_id)
     IN IF l.event_id \notin DOMAIN events
          THEN Respond(w, [op |-> "create_tickets", status |-> "error",
                           event_id |-> l.event_id])
        ELSE IF Len(created) = l.quantity
          THEN Respond(w, [op |-> "create_tickets", status |-> "ok",
                           event_id |-> l.event_id, quantity |-> l.quantity,
                           created |-> created])
        ELSE Goto(w, "create_tickets_generate",
                  [l EXCEPT !.created = created, !.expired = FALSE,
                            !.sent = Append(l.sent, sent)])
  /\ UNCHANGED <<events, tickets, files, clock>>

\* PUT /api/tickets/{ticket_id}: the lookup and the assignments of the
\* supplied (truthy) fields to the session's copy.
update_ticket_lookup(w, id, d) ==
  /\ pc[w] = "idle"
  /\ IF id \notin DOMAIN tickets
       THEN Answer(w, [op |-> "update_ticket", status |-> "not_found", row |-> id])
       ELSE Start(w, "update_ticket_render",
                  [op |-> "update_ticket", row |-> id, data |-> d,
                   loaded |-> tickets[id]])
  /\ UNCHANGED <<events, tickets, files, clock>>

\* event = db.query(Event)...first(); render_ticket_image(...) onto the
\* path derived from the ticket identifier.
update_ticket_render(w, rendered) ==
  /\ pc[w] = "update_ticket_render"
  /\ LET l == loc[w]
     IN IF l.loaded.event_id \notin DOMAIN events \/ ~rendered
          THEN /\ Respond(w, [op |-> "update_ticket", status |-> "error", row |-> l.row])
               /\ UNCHANGED files
          ELSE /\ files' = files \cup {ImagePath(l.loaded.ticket_id)}
               /\ Goto(w, "update_ticket_commit", l)
  /\ UNCHANGED <<events, tickets, clock>>

TicketFields == {"attendee_name", "attendee_email", "ticket_type"}

\* The fields of a TicketUpdate body that the handler assigns.
Supplied(d) == {f \in TicketFields : d[f] # None}

\* update_ticket_commit with the whole session copy written back, not only
\* the assigned columns.
update_ticket_commit_whole_row(w) ==
  /\ pc[w] = "update_ticket_commit"
  /\ LET l == loc[w]
         d == [f \in DOMAIN l.loaded |->
                 IF f \in Supplied(l.data) THEN l.data[f] ELSE l.loaded[f]]
     IN IF l.row \notin DOMAIN tickets
          THEN /\ Respond(w, [op |-> "update_ticket", status |-> "error", row |-> l.row])
               /\ UNCHANGED tickets
          ELSE /\ tickets' = [tickets EXCEPT ![l.row] = d]
               /\ Respond(w, [op |-> "update_ticket", status |-> "ok", row |-> l.row])
  /\ UNCHANGED <<events, files, clock>>

\* update_ticket_commit without the tests of the supplied fields: a field
\* that the body leaves out is assigned too.
update_ticket_commit_unsupplied(w) ==
  /\ pc[w] = "update_ticket_commit"
  /\ LET l == loc[w]
         cols == Assigned(l.loaded, l.data, TicketFields)
                   \cup (IF ImagePath(l.loaded.ticket_id) # l.loaded.ticket_image_path
                           THEN {"ticket_image_path"} ELSE {})
         d == [f \in DOMAIN l.loaded |->
                 IF f = "ticket_image_path" THEN ImagePath(l.loaded.ticket_id)
                 ELSE IF f \in TicketFields THEN l.data[f] ELSE l.loaded[f]]
     IN IF l.row \notin DOMAIN tickets
          THEN /\ Respond(w, [op |-> "update_ticket", status |-> "error", row |-> l.row])
               /\ UNCHANGED tickets
          ELSE /\ tickets' = [tickets EXCEPT ![l.row] = WriteColumns(@, d, cols)]
               /\ Respond(w, [op |-> "update_ticket", status |-> "ok", row |-> l.row])
  /\ UNCHANGED <<events, files, clock>>

\* db.commit(); db.refresh(ticket): the UPDATE of the assigned columns (and
\* of updated_at, so a row that is gone is always noticed).
update_ticket_commit(w) ==
  /\ pc[w] = "update_ticket_commit"
  /\ LET l == loc[w]
         cols == Assigned(l.loaded, l.data, Supplied(l.data))
                   \cup (IF ImagePath(l.loaded.ticket_id) # l.loaded.ticket_image_path
                           THEN {"ticket_image_path"} ELSE {})
         d == [f \in DOMAIN l.loaded |->
                 IF f = "ticket_image_path" THEN ImagePath(l.loaded.ticket_id)
                 ELSE IF f \in TicketFields THEN l.data[f] ELSE l.loaded[f]]
     IN IF l.row \notin DOMAIN tickets
          THEN /\ Respond(w, [op |-> "update_ticket", status |-> "error", row |-> l.row])
               /\ UNCHANGED tickets
          ELSE /\ tickets' = [tickets EXCEPT ![l.row] = WriteColumns(@, d, cols)]
               /\ Respond(w, [op |-> "update_ticket", status |-> "ok", row |-> l.row])
  /\ UNCHANGED <<events, files, clock>>

\* Outcomes of the two os.remove calls of delete_ticket.
RemoveOutcomes == {"removed", "qr_fails", "image_fails"}

\* delete_ticket_lookup without the try/except around the os.remove calls:
\* a removal that fails ends the request.
delete_ticket_lookup_no_except(w, id, outcome) ==
  /\ pc[w] = "idle"
  /\ IF id \notin DOMAIN tickets
       THEN /\ Answer(w, [op |-> "delete_ticket", status |-> "not_found", row |-> id])
            /\ UNCHANGED files
       ELSE LET t == tickets[id]
                qrFails == t.qr_code_path \in files /\ outcome = "qr_fails"
                imgFails == t.ticket_image_path \in files /\ outcome = "image_fails"
            IN IF qrFails
                 THEN /\ Answer(w, [op |-> "delete_ticket", status |-> "error", row |-> id])
                      /\ UNCHANGED files
               ELSE IF imgFails
                 THEN /\ Answer(w, [op |-> "delete_ticket", status |-> "error", row |-> id])
                      /\ files' = files \ {t.qr_code_path}
               ELSE /\ files' = files \ {t.qr_code_path, t.ticket_image_path}
                    /\ Start(w, "delete_ticket_commit",
                             [op |-> "delete_ticket", row |-> id,
                              ticket_id |-> t.ticket_id])
  /\ UNCHANGED <<events, tickets, clock>>

\* DELETE /api/tickets/{ticket_id}: the lookup and the removal of the files;
\* an exception of os.remove skips the rest of the try block.
delete_ticket_lookup(w, id, outcome) ==
  /\ pc[w] = "idle"
  /\ IF id \notin DOMAIN tickets
       THEN /\ Answer(w, [op |-> "delete_ticket", status |-> "not_found", row |-> id])
            /\ UNCHANGED files
       ELSE LET t == tickets[id]
                qr == IF t.qr_code_path \in files /\ outcome # "qr_fails"
                        THEN {t.qr_code_path} ELSE {}
                img == IF t.ticket_image_path \in files
                          /\ ~(t.qr_code_path \in files /\ outcome = "qr_fails")
                          /\ outcome # "image_fails"
                         THEN {t.ticket_image_path} ELSE {}
            IN /\ files' = files \ (qr \cup img)
               /\ Start(w, "delete_ticket_commit",
                        [op |-> "delete_ticket", row |-> id,
                         ticket_id |-> t.ticket_id])
  /\ UNCHANGED <<events, tickets, clock>>

\* db.delete(ticket); db.commit(); the message returned names the ticket_id.
delete_ticket_commit(w) ==
  /\ pc[w] = "delete_ticket_commit"
  /\ tickets' = Remove(tickets, {loc[w].row})
  /\ Respond(w, [op |-> "delete_ticket", status |-> "ok", row |-> loc[w].row,
                 ticket_id |-> loc[w].ticket_id])
  /\ UNCHANGED <<events, files, clock>>

\* POST /api/tickets/{ticket_id}/resend: the ticket lookup.
resend_ticket_lookup(w, id) ==
  /\ pc[w] = "idle"
  /\ IF id \notin DOMAIN tickets
       THEN Answer(w, [op |-> "resend_ticket", status |-> "not_found", row |-> id])
       ELSE Start(w, "resend_ticket_send",
                  [op |-> "resend_ticket", row |-> id,
                   event_id |-> tickets[id].event_id])
  /\ UNCHANGED <<events, tickets, files, clock>>

\* resend_ticket_send that issues the ticket anew: the row is marked unused
\* before the message is sent.
resend_ticket_send_reissue(w, sent) ==
  /\ pc[w] = "resend_ticket_send"
  /\ LET l == loc[w]
     IN IF l.event_id \notin DOMAIN events \/ l.row \notin DOMAIN tickets
          THEN /\ Respond(w, [op |-> "resend_ticket", status |-> "error", row |-> l.row])
               /\ UNCHANGED tickets
          ELSE /\ tickets' = [tickets EXCEPT ![l.row].is_used = FALSE,
                                             ![l.row].used_at = Null]
               /\ Respond(w, [op |-> "resend_ticket",
                              status |-> IF sent THEN "ok" ELSE "send_failed",
                              row |-> l.row])
  /\ UNCHANGED <<events, files, clock>>

\* The event lookup and send_ticket_email; a failed send is a 500.
resend_ticket_send(w, sent) ==
  /\ pc[w] = "resend_ticket_send"
  /\ LET l == loc[w]
     IN IF l.event_id \notin DOMAIN events
          THEN Respond(w, [op |-> "resend_ticket", status |-> "error", row |-> l.row])
        ELSE IF ~sent
          THEN Respond(w, [op |-> "resend_ticket", status |-> "send_failed", row |-> l.row])
        ELSE Respond(w, [op |-> "resend_ticket", status |-> "ok", row |-> l.row])
  /\ UNCHANGED <<events, tickets, files, clock>>

\* ----------------------------------------------------------- scan route
\* validate_ticket_lookup without the early return for a missing ticket: the
\* handler goes on and fails on the missing row.
validate_ticket_lookup_no_check(w, tid) ==
  /\ pc[w] = "idle"
  /\ LET found == TicketByIdentifier(tid)
     IN IF found = {}
          THEN Answer(w, [op |-> "validate_ticket", status |-> "error",
                          ticket_id |-> tid])
        ELSE LET id == CHOOSE i \in found : TRUE
             IN IF tickets[id].is_used
                  THEN Answer(w, [op |-> "validate_ticket", status |-> "already_used",
                                  ticket_id |-> tid,
                                  used_at |-> tickets[id].used_at])
                  ELSE Start(w, "validate_ticket_commit",
                             [op |-> "validate_ticket", row |-> id,
                              ticket_id |-> tid])
  /\ UNCHANGED <<events, tickets, files, clock>>

\* POST /api/scan/validate: the lookup by identifier and the two early
\* returns.
validate_ticket_lookup(w, tid) ==
  /\ pc[w] = "idle"
  /\ LET found == TicketByIdentifier(tid)
     IN IF found = {}
          THEN Answer(w, [op |-> "validate_ticket", status |-> "invalid",
                          ticket_id |-> tid])
        ELSE LET id == CHOOSE i \in found : TRUE
             IN IF tickets[id].is_used
                  THEN Answer(w, [op |-> "validate_ticket", status |-> "already_used",
                                  ticket_id |-> tid,
                                  used_at |-> tickets[id].used_at])
                  ELSE Start(w, "validate_ticket_commit",
                             [op |-> "validate_ticket", row |-> id,
                              ticket_id |-> tid])
  /\ UNCHANGED <<events, tickets, files, clock>>

\* ticket.is_used = True; ticket.used_at = datetime.utcnow(); db.commit()
validate_ticket_commit(w) ==
  /\ pc[w] = "validate_ticket_commit"
  /\ LET l == loc[w]
     IN IF l.row \notin DOMAIN tickets
          THEN /\ Respond(w, [op |-> "validate_ticket", status |-> "error",
                              ticket_id |-> l.ticket_id])
               /\ UNCHANGED tickets
          ELSE /\ tickets' = [tickets EXCEPT ![l.row].is_used = TRUE,
                                             ![l.row].used_at = clock]
               /\ Goto(w, "validate_ticket_refresh", l)
  /\ UNCHANGED <<events, files, clock>>

\* db.refresh(ticket)
validate_ticket_refresh(w) ==
  /\ pc[w] = "validate_ticket_refresh"
  /\ LET l == loc[w]
     IN IF l.row \notin DOMAIN tickets
          THEN Respond(w, [op |-> "validate_ticket", status |-> "error",
                           ticket_id |-> l.ticket_id])
          ELSE Goto(w, "validate_ticket_event",
                    [op |-> "validate_ticket", row |-> l.row,
                     ticket_id |-> tickets[l.row].ticket_id,
                     event_id |-> tickets[l.row].event_id])
  /\ UNCHANGED <<events, tickets, files, clock>>

\* event = db.query(Event)...first(); return {"valid": True, ...}
validate_ticket_event(w) ==
  /\ pc[w] = "validate_ticket_event"
  /\ LET l == loc[w]
     IN IF l.event_id \notin DOMAIN events
          THEN Respond(w, [op |-> "validate_ticket", status |-> "error",
                           ticket_id |-> l.ticket_id])
          ELSE Respond(w, [op |-> "validate_ticket", status |-> "valid",
                           ticket_id |-> l.ticket_id])
  /\ UNCHANGED <<events, tickets, files, clock>>

\* ------------------------------------------------------ dashboard routes
\* db.query(Ticket).filter(Ticket.is_used == True).count(), over the tickets
\* of event eid or, with eid = 0, over all tickets.
UsedTickets(eid) ==
  {i \in DOMAIN tickets : tickets[i].is_used /\ (eid = 0 \/ tickets[i].event_id = eid)}

\* GET /api/dashboard/stats: total_events = db.query(Event).count()
get_dashboard_stats_total_events(w) ==
  /\ pc[w] = "idle"
  /\ Start(w, "get_dashboard_stats_active_events",
           [op |-> "dashboard", total_events |-> Cardinality(DOMAIN events)])
  /\ UNCHANGED <<events, tickets, files, clock>>

\* active_events = db.query(Event).filter(Event.is_active == True).count()
get_dashboard_stats_active_events(w) ==
  /\ pc[w] = "get_dashboard_stats_active_events"
  /\ Goto(w, "get_dashboard_stats_total_tickets",
          [op |-> "dashboard", total_events |-> loc[w].total_events,
           active_events |-> Cardinality({e \in DOMAIN events : events[e].is_active})])
  /\ UNCHANGED <<events, tickets, files, clock>>

\* total_tickets = db.query(Ticket).count()
get_dashboard_stats_total_tickets(w) ==
  /\ pc[w] = "get_dashboard_stats_total_tickets"
  /\ Goto(w, "get_dashboard_stats_used_tickets",
          [op |-> "dashboard", total_events |-> loc[w].total_events,
           active_events |-> loc[w].active_events,
           total_tickets |-> Cardinality(DOMAIN tickets)])
  /\ UNCHANGED <<events, tickets, files, clock>>

\* used_tickets = db.query(Ticket).filter(Ticket.is_used == True).count() and
\* the returned dictionary.
get_dashboard_stats_used_tickets(w) ==
  /\ pc[w] = "get_dashboard_stats_used_tickets"
  /\ LET l == loc[w]
         used == Cardinality(UsedTickets(0))
     IN Respond(w, [op |-> "dashboard", status |-> "ok",
                    total_tickets |-> l.total_tickets, used_tickets |-> used,
                    remaining_tickets |-> l.total_tickets - used,
                    total_events |-> l.total_events,
                    active_events |-> l.active_events])
  /\ UNCHANGED <<events, tickets, files, clock>>

\* GET /api/events/{event_id}/stats: the event lookup.
get_event_stats_lookup(w, eid) ==
  /\ pc[w] = "idle"
  /\ IF eid \notin DOMAIN events
       THEN Answer(w, [op |-> "event_stats", status |-> "not_found", event_id |-> eid])
       ELSE Start(w, "get_event_stats_total_tickets",
                  [op |-> "event_stats", event_id |-> eid,
                   is_active |-> events[eid].is_active,
                   is_locked |-> events[eid].is_locked])
  /\ UNCHANGED <<events, tickets, files, clock>>

\* total_tickets = db.query(Ticket).filter(Ticket.event_id == event_id).count()
get_event_stats_total_tickets(w) ==
  /\ pc[w] = "get_event_stats_total_tickets"
  /\ Goto(w, "get_event_stats_used_tickets",
          [op |-> "event_stats", event_id |-> loc[w].event_id,
           is_active |-> loc[w].is_active, is_locked |-> loc[w].is_locked,
           total_tickets |-> Cardinality(TicketsOfEvent(loc[w].event_id))])
  /\ UNCHANGED <<events, tickets, files, clock>>

\* used_tickets = db.query(Ticket).filter(Ticket.event_id == event_id,
\* Ticket.is_used == True).count() and the returned dictionary (is_active and
\* is_locked come from the copy loaded by the lookup; event_name is left out).
get_event_stats_used_tickets(w) ==
  /\ pc[w] = "get_event_stats_used_tickets"
  /\ LET l == loc[w]
         used == Cardinality(UsedTickets(l.event_id))
     IN Respond(w, [op |-> "event_stats", status |-> "ok",
                    event_id |-> l.event_id,
                    total_tickets |-> l.total_tickets, used_tickets |-> used,
                    remaining_tickets |-> l.total_tickets - used,
                    is_active |-> l.is_active, is_locked |-> l.is_locked])
  /\ UNCHANGED <<events, tickets, files, clock>>

\* ------------------------------------------------------- specifications
Routes == {"create_event", "update_event", "delete_event", "toggle", "upload",
           "create_tickets", "update_ticket", "delete_ticket", "resend_ticket",
           "validate_ticket", "dashboard", "event_stats"}

\* A request for `route` is taken up by worker w, the first free one.
\* Handlers are coroutines without await, so one server process runs them
\* one after the other; the routes in X are served by several worker
\* processes and overlap.
Arrives(w, route, X) ==
  /\ \A v \in Procs : v < w => pc[v] # "idle"
  /\ \/ \A v \in Procs : pc[v] = "idle"
     \/ /\ route \in X
        /\ \A v \in Procs \ {w} : pc[v] # "idle" => loc[v].op \in X

\* The first statement of each handler.
Begin(w, X) ==
  \/ Arrives(w, "create_event", X) /\ \E d \in EventData : create_event(w, d)
  \/ Arrives(w, "update_event", X)
       /\ \E e \in EventIds, d \in EventUpdateData : update_event_lookup(w, e, d)
  \/ Arrives(w, "delete_event", X) /\ \E e \in EventIds : delete_event_lookup(w, e)
  \/ Arrives(w, "toggle", X) /\ \E e \in EventIds : toggle_event_active_lookup(w, e)
  \/ Arrives(w, "upload", X)
       /\ \E e \in EventIds, img \in BOOLEAN, x \in Extensions :
            upload_ticket_design_lookup(w, e, img, x)
  \/ Arrives(w, "create_tickets", X)
       /\ \E e \in EventIds, d \in TicketData, q \in Quantities :
            create_tickets_lookup(w, e, d, q)
  \/ Arrives(w, "update_ticket", X)
       /\ \E i \in TicketRowIds, d \in TicketUpdateData : update_ticket_lookup(w, i, d)
  \/ Arrives(w, "delete_ticket", X)
       /\ \E i \in TicketRowIds, o \in RemoveOutcomes : delete_ticket_lookup(w, i, o)
  \/ Arrives(w, "resend_ticket", X)
       /\ \E i \in TicketRowIds : resend_ticket_lookup(w, i)
  \/ Arrives(w, "validate_ticket", X)
       /\ \E t \in TicketIdentifiers : validate_ticket_lookup(w, t)
  \/ Arrives(w, "dashboard", X) /\ get_dashboard_stats_total_events(w)
  \/ Arrives(w, "event_stats", X) /\ \E e \in EventIds : get_event_stats_lookup(w, e)

\* The later statements of each handler.
Continue(w) ==
  \/ update_event_commit(w)
  \/ delete_event_commit(w)
  \/ toggle_event_active_commit(w)
  \/ upload_ticket_design_commit(w)
  \/ create_tickets_lock(w)
  \/ \E r \in Rand, enc \in BOOLEAN, ok \in BOOLEAN :
       create_tickets_generate(w, r, enc, ok)
  \/ create_tickets_insert(w)
  \/ create_tickets_refresh(w)
  \/ \E sent \in BOOLEAN : create_tickets_send(w, sent)
  \/ \E ok \in BOOLEAN : update_ticket_render(w, ok)
  \/ update_ticket_commit(w)
  \/ delete_ticket_commit(w)
  \/ \E sent \in BOOLEAN : resend_ticket_send(w, sent)
  \/ validate_ticket_commit(w)
  \/ validate_ticket_refresh(w)
  \/ validate_ticket_event(w)
  \/ get_dashboard_stats_active_events(w)
  \/ get_dashboard_stats_total_tickets(w)
  \/ get_dashboard_stats_used_tickets(w)
  \/ get_event_stats_total_tickets(w)
  \/ get_event_stats_used_tickets(w)

NextOf(X) == Tick \/ \E w \in Procs : Begin(w, X) \/ Continue(w)

\* One server process: requests are served one at a time.
Next == NextOf({})
Spec == Init /\ [][Next]_vars

\* Several workers: scans overlap with each other and with ticket edits.
ScanNext == NextOf({"validate_ticket", "update_ticket"})
SpecScan == Init /\ [][ScanNext]_vars

\* Several workers: ticket batches overlap with the creation, edit and
\* deletion of events.
BatchNext == NextOf({"create_event", "update_event", "delete_event", "create_tickets"})
SpecBatch == Init /\ [][BatchNext]_vars

\* Several workers and clients that only create events, issue batches and
\* delete tickets; batches and ticket deletions overlap.
IssueRoutes == {"create_tickets", "delete_ticket"}

IssueNext ==
  \/ Tick
  \/ \E w \in Procs :
       \/ Arrives(w, "create_event", IssueRoutes)
            /\ \E d \in EventData : create_event(w, d)
       \/ Arrives(w, "create_tickets", IssueRoutes)
            /\ \E e \in EventIds, d \in TicketData, q \in Quantities :
                 create_tickets_lookup(w, e, d, q)
       \/ Arrives(w, "delete_ticket", IssueRoutes)
            /\ \E i \in TicketRowIds, o \in RemoveOutcomes :
                 delete_ticket_lookup(w, i, o)
       \/ create_tickets_lock(w)
       \/ \E r \in Rand, enc \in BOOLEAN, ok \in BOOLEAN :
            create_tickets_generate(w, r, enc, ok)
       \/ create_tickets_insert(w)
       \/ create_tickets_refresh(w)
       \/ \E sent \in BOOLEAN : create_tickets_send(w, sent)
       \/ delete_ticket_commit(w)

SpecIssue == Init /\ [][IssueNext]_vars

\* Several workers and clients that only create events, issue batches, scan
\* and read the statistics; batches, scans and the two statistics routes
\* overlap.
StatsRoutes == {"create_tickets", "validate_ticket", "dashboard", "event_stats"}

StatsNext ==
  \/ Tick
  \/ \E w \in Procs :
       \/ Arrives(w, "create_event", StatsRoutes)
            /\ \E d \in EventData : create_event(w, d)
       \/ Arrives(w, "create_tickets", StatsRoutes)
            /\ \E e \in EventIds, d \in TicketData, q \in Quantities :
                 create_tickets_lookup(w, e, d, q)
       \/ Arrives(w, "validate_ticket", StatsRoutes)
            /\ \E t \in TicketIdentifiers : validate_ticket_lookup(w, t)
       \/ Arrives(w, "dashboard", StatsRoutes) /\ get_dashboard_stats_total_events(w)
       \/ Arrives(w, "event_stats", StatsRoutes)
            /\ \E e \in EventIds : get_event_stats_lookup(w, e)
       \/ create_tickets_lock(w)
       \/ \E r \in Rand, enc \in BOOLEAN, ok \in BOOLEAN :
            create_tickets_generate(w, r, enc, ok)
       \/ create_tickets_insert(w)
       \/ create_tickets_refresh(w)
       \/ \E sent \in BOOLEAN : create_tickets_send(w, sent)
       \/ validate_ticket_commit(w)
       \/ validate_ticket_refresh(w)
       \/ validate_ticket_event(w)
       \/ get_dashboard_stats_active_events(w)
       \/ get_dashboard_stats_total_tickets(w)
       \/ get_dashboard_stats_used_tickets(w)
       \/ get_event_stats_total_tickets(w)
       \/ get_event_stats_used_tickets(w)

SpecStats == Init /\ [][StatsNext]_vars
\* ================================================================ claims
\* The persistent state: the two tables and the files on disk.
Store == <<events, tickets, files>>

\* Worker w returns a response in this step.
Returns(w) == resp'[w] # resp[w] /\ resp'[w].status # "none"

\* ---- C1 ---------------------------------------------------------------
\* C1: of two overlapping Validate calls with the identifier of one issued
\* ticket, exactly one returns Valid and the other returns AlreadyUsed; no
\* interleaving lets both return Valid.
C1_ExactlyOneValid ==
  \A w \in Procs : \A v \in Procs \ {w} :
    (/\ resp[w].status = "valid"
     /\ resp[v].status # "none"
     /\ resp[v].op = "validate_ticket"
     /\ resp[v].ticket_id = resp[w].ticket_id)
    => resp[v].status = "already_used"

\* ---- C2 ---------------------------------------------------------------
\* C2: every persisted ticket has used true exactly when used_at is set, and
\* a ticket that is used stays used, with used_at set, for as long as its
\* row exists, whatever operation runs.
C2_UsedIsTerminal ==
  [][ /\ \A i \in DOMAIN tickets' :
           tickets'[i].is_used <=> tickets'[i].used_at # Null
      /\ \A i \in DOMAIN tickets \cap DOMAIN tickets' :
           tickets[i].is_used =>
             tickets'[i].is_used /\ tickets'[i].used_at # Null ]_vars

\* A redeemed ticket has been edited by update_ticket.
C2_Witness ==
  \E w \in Procs :
    /\ resp[w].status = "ok"
    /\ resp[w].op = "update_ticket"
    /\ resp[w].row \in DOMAIN tickets
    /\ tickets[resp[w].row].is_used
    /\ tickets[resp[w].row].used_at # Null
    /\ tickets[resp[w].row].attendee_name = "a2"

\* ---- C3 ---------------------------------------------------------------
\* C3: a Validate of a used ticket returns AlreadyUsed with the stored
\* used_at and changes nothing, so the timestamp one scan reported is the
\* stored one that the next scan reports too.
C3_AlreadyUsedTimestampStays ==
  \A w \in Procs :
    resp[w].status = "already_used" =>
      \A i \in TicketByIdentifier(resp[w].ticket_id) :
        tickets[i].is_used /\ tickets[i].used_at = resp[w].used_at

\* The parts of C3 that the code keeps: the scan of a used ticket answers
\* with the stored used_at and writes nothing.
C3_ScanOfUsedTicketIsReadOnly ==
  [][\A w \in Procs :
       (Returns(w) /\ resp'[w].status = "already_used") =>
         /\ UNCHANGED Store
         /\ \E i \in TicketByIdentifier(resp'[w].ticket_id) :
              tickets[i].is_used /\ tickets[i].used_at = resp'[w].used_at]_vars

\* ---- C4 ---------------------------------------------------------------
\* C4: the used_at that the first redeeming Validate stored is never
\* overwritten, by a later Validate or by a concurrent one.
C4_UsedAtWrittenOnce ==
  [][\A i \in DOMAIN tickets \cap DOMAIN tickets' :
       tickets[i].is_used => tickets'[i].used_at = tickets[i].used_at]_vars

\* ---- C5 ---------------------------------------------------------------
\* C5: a Validate whose identifier matches no persisted ticket returns
\* Invalid and leaves events, tickets and files as they were.
C5_UnknownIdentifierIsInvalid ==
  [][\A w \in Procs :
       (/\ pc[w] = "idle"
        /\ Returns(w)
        /\ resp'[w].op = "validate_ticket"
        /\ \/ TicketByIdentifier(resp'[w].ticket_id) = {}
           \/ resp'[w].status = "invalid")
       => /\ resp'[w].status = "invalid"
          /\ TicketByIdentifier(resp'[w].ticket_id) = {}
          /\ UNCHANGED Store]_vars

\* An unknown identifier was scanned while tickets exist.
C5_Witness ==
  \E w \in Procs :
    /\ resp[w].status = "invalid"
    /\ TicketByIdentifier(resp[w].ticket_id) = {}
    /\ DOMAIN tickets # {}

\* C6: once an event is locked, none of its fields other than is_active
\* changes: name, date, time, venue, city, description and the design-image
\* reference keep their values under every later operation.
C6_LockedEventFieldsFrozen ==
  [][\A e \in DOMAIN events \cap DOMAIN events' :
       events[e].is_locked =>
         \A f \in EventFields \cup {"ticket_design_path"} :
           events'[e][f] = events[e][f]]_vars

\* C7: an update_event request that finds its event locked is answered
\* "locked" at once, whatever body it carries, and changes no event.
C7_UpdateOfLockedEventFails ==
  [][\A w \in Procs :
       (/\ pc[w] = "idle"
        /\ \/ pc'[w] = "update_event_commit"
           \/ Returns(w) /\ resp'[w].op = "update_event")
       => LET eid == IF pc'[w] = "update_event_commit"
                       THEN loc'[w].event_id ELSE resp'[w].event_id
          IN (eid \in DOMAIN events /\ events[eid].is_locked)
               => /\ pc'[w] = "idle"
                  /\ resp'[w].status = "locked"
                  /\ events' = events]_vars

\* The scenario of C7: an event created with the first body, its venue
\* updated, one ticket created, a further update refused; the venue is the
\* one of the first update.
C7_Witness ==
  \E w \in Procs :
    /\ resp[w].status = "locked"
    /\ resp[w].op = "update_event"
    /\ resp[w].event_id \in DOMAIN events
    /\ LET e == events[resp[w].event_id]
       IN /\ e.is_locked
          /\ e.name = "n1"
          /\ e.venue = "v2"
    /\ Cardinality(TicketsOfEvent(resp[w].event_id)) = 1

\* C8: is_locked is monotone: a new event row is unlocked, and a locked row
\* stays locked for as long as it exists.
C8_LockedIsMonotone ==
  [][\A e \in DOMAIN events' :
       IF e \in DOMAIN events
         THEN events[e].is_locked => events'[e].is_locked
         ELSE ~events'[e].is_locked]_vars

\* An update_event whose commit landed after a batch had locked the event:
\* the event is still locked.
C8_Witness ==
  \E w \in Procs :
    /\ resp[w].status = "ok"
    /\ resp[w].op = "update_event"
    /\ resp[w].event_id \in DOMAIN events
    /\ events[resp[w].event_id].is_locked
    /\ events[resp[w].event_id].venue = "v2"

\* C9: every event that has at least one persisted ticket is locked.
C9_TicketedEventIsLocked ==
  \A e \in DOMAIN events : TicketsOfEvent(e) # {} => events[e].is_locked

\* C10: a batch enters the lock step only at its start, is_locked is set
\* only by that step, every insert of the loop adds one unused row for the
\* event, and a batch of k >= 1 that completes returns k pairwise distinct
\* identifiers, each of an unused row of the (locked) event.
C10_BatchLocksOnceAndAddsK ==
  [][/\ \A w \in Procs :
          /\ (pc'[w] = "create_tickets_lock" /\ pc[w] # "create_tickets_lock")
               => pc[w] = "idle"
          /\ (pc[w] = "create_tickets_insert" /\ pc'[w] = "create_tickets_refresh")
               => \E r \in DOMAIN tickets' \ DOMAIN tickets :
                    /\ DOMAIN tickets' = DOMAIN tickets \cup {r}
                    /\ \A i \in DOMAIN tickets : tickets'[i] = tickets[i]
                    /\ tickets'[r].ticket_id = loc[w].ticket_id
                    /\ tickets'[r].event_id = loc[w].event_id
                    /\ ~tickets'[r].is_used
                    /\ tickets'[r].used_at = Null
          /\ (/\ Returns(w)
              /\ resp'[w].op = "create_tickets"
              /\ resp'[w].status = "ok"
              /\ resp'[w].quantity >= 1)
               => LET c == resp'[w].created
                      eid == resp'[w].event_id
                  IN /\ Len(c) = resp'[w].quantity
                     /\ Cardinality({c[i] : i \in DOMAIN c}) = Len(c)
                     /\ \A i \in DOMAIN c :
                          \E r \in TicketByIdentifier(c[i]) :
                            /\ tickets'[r].event_id = eid
                            /\ ~tickets'[r].is_used
                            /\ tickets'[r].used_at = Null
                     /\ Cardinality(TicketsOfEvent(eid)) >= Len(c)
                     /\ events'[eid].is_locked
     /\ \A e \in DOMAIN events \cap DOMAIN events' :
          (~events[e].is_locked /\ events'[e].is_locked)
            => \E w \in Procs : pc[w] = "create_tickets_lock" /\ loc[w].event_id = e
     /\ (DOMAIN tickets' \ DOMAIN tickets # {})
          => \E w \in Procs : pc[w] = "create_tickets_insert"]_vars

\* A completed batch of two: two distinct identifiers, two unused rows.
C10_Witness ==
  \E w \in Procs :
    /\ resp[w].status = "ok"
    /\ resp[w].op = "create_tickets"
    /\ resp[w].quantity = 2
    /\ Len(resp[w].created) = 2
    /\ resp[w].created[1] # resp[w].created[2]
    /\ Cardinality(TicketsOfEvent(resp[w].event_id)) = 2
    /\ events[resp[w].event_id].is_locked

\* C11: a create_tickets request whose quantity is below 1 is answered
\* "validation_failed" and none of its steps changes the tables or the files:
\* the event keeps its is_locked value and no row or file is created.
C11_QuantityBelowOneRejected ==
  [][\A w \in Procs :
       /\ (/\ pc[w] \in {"create_tickets_lock", "create_tickets_generate"}
           /\ pc'[w] # pc[w]
           /\ loc[w].quantity < 1)
            => UNCHANGED Store
       /\ (/\ Returns(w)
           /\ resp'[w].op = "create_tickets"
           /\ "quantity" \in DOMAIN resp'[w]
           /\ resp'[w].quantity < 1)
            => /\ resp'[w].status = "validation_failed"
               /\ UNCHANGED Store]_vars

\* C12: the step of delete_event that removes the event removes every ticket
\* row of the event and leaves none of their QR and image files behind.
C12_DeleteEventRemovesRowsAndFiles ==
  [][\A w \in Procs :
       (pc[w] = "delete_event_commit" /\ pc'[w] = "idle")
         => LET eid == loc[w].event_id
            IN /\ eid \notin DOMAIN events'
               /\ \A i \in DOMAIN tickets' : tickets'[i].event_id # eid
               /\ \A i \in TicketsOfEvent(eid) :
                    /\ tickets[i].qr_code_path \notin files'
                    /\ tickets[i].ticket_image_path \notin files']_vars

\* The part of C12 that holds: the step removes the event and every ticket
\* row of the event.
C12_DeleteEventRemovesRows ==
  [][\A w \in Procs :
       (pc[w] = "delete_event_commit" /\ pc'[w] = "idle")
         => LET eid == loc[w].event_id
            IN /\ eid \notin DOMAIN events'
               /\ \A i \in DOMAIN tickets' : tickets'[i].event_id # eid]_vars

\* C13: no two ticket rows carry the same ticket_id, and an insert of a
\* ticket_id that a row already carries fails and adds no row.
C13_IdentifiersAreUnique ==
  [][/\ \A i, j \in DOMAIN tickets' :
          i # j => tickets'[i].ticket_id # tickets'[j].ticket_id
     /\ \A w \in Procs :
          (/\ pc[w] = "create_tickets_insert"
           /\ pc'[w] # pc[w]
           /\ TicketByIdentifier(loc[w].ticket_id) # {})
            => /\ tickets' = tickets
               /\ resp'[w].status = "error"]_vars

\* A batch has failed on the identifier of an existing row; there is still
\* one row with it.
C13_Witness ==
  \E w \in Procs :
    /\ resp[w].status = "error"
    /\ resp[w].op = "create_tickets"
    /\ "cause" \in DOMAIN resp[w]
    /\ resp[w].cause = "IntegrityError"
    /\ Cardinality(TicketByIdentifier(resp[w].ticket_id)) = 1

\* C14: a ticket_id is never issued again: while the answer of a
\* delete_ticket that names the deleted ticket_id stands, no row carries
\* that ticket_id.
C14_DeletedIdentifierNotReissued ==
  \A w \in Procs :
    (resp[w].status = "ok" /\ resp[w].op = "delete_ticket")
      => TicketByIdentifier(resp[w].ticket_id) = {}

\* C15: update_ticket changes, of the store, only the supplied fields among
\* name, e-mail and type of its ticket (and may write the image file at the
\* path derived from the ticket_id): ticket_id, QR path, image path,
\* event_id, is_used and used_at keep their values, every other row and every
\* event is unchanged; for an id without a row it answers "not_found" and
\* changes nothing.
C15_UpdateTicketFrame ==
  [][\A w \in Procs :
       /\ (pc[w] = "idle" /\ pc'[w] = "update_ticket_render") => UNCHANGED Store
       /\ (/\ pc[w] = "idle"
           /\ Returns(w)
           /\ resp'[w].op = "update_ticket")
            => /\ resp'[w].status = "not_found"
               /\ resp'[w].row \notin DOMAIN tickets
               /\ UNCHANGED Store
       /\ (pc[w] = "update_ticket_render" /\ pc'[w] # pc[w])
            => /\ UNCHANGED <<events, tickets>>
               /\ files' \in {files, files \cup {ImagePath(loc[w].loaded.ticket_id)}}
       /\ (pc[w] = "update_ticket_commit" /\ pc'[w] # pc[w])
            => LET l == loc[w]
               IN /\ UNCHANGED <<events, files>>
                  /\ DOMAIN tickets' = DOMAIN tickets
                  /\ \A i \in DOMAIN tickets :
                       \A f \in DOMAIN tickets[i] :
                         IF i = l.row /\ f \in TicketFields /\ l.data[f] # None
                           THEN tickets'[i][f] = l.data[f]
                           ELSE tickets'[i][f] = tickets[i][f]]_vars

\* A redeemed ticket whose name alone was updated: its e-mail, type, flag and
\* timestamp are as before.
C15_Witness ==
  \E w \in Procs :
    /\ resp[w].status = "ok"
    /\ resp[w].op = "update_ticket"
    /\ resp[w].row \in DOMAIN tickets
    /\ LET t == tickets[resp[w].row]
       IN /\ t.attendee_name = "a2"
          /\ t.attendee_email = "e1"
          /\ t.ticket_type = "k1"
          /\ t.is_used
          /\ t.used_at # Null
          /\ t.qr_code_path = QrPath(t.ticket_id)
          /\ t.ticket_image_path = ImagePath(t.ticket_id)

\* C16: the send step of a unit changes neither table nor the files,
\* whatever send_ticket_email returns: the unit's row stays, unused, and the
\* batch goes on to its next unit or returns its list; a scan of an unused
\* ticket goes on to redeem it and is answered "valid".
C16_FailedSendKeepsTicket ==
  [][\A w \in Procs :
       /\ (pc[w] = "create_tickets_send" /\ pc'[w] # pc[w])
            => LET l == loc[w]
                   created == Append(l.created, l.ticket_id)
               IN /\ UNCHANGED Store
                  /\ l.row \in DOMAIN tickets
                  /\ tickets[l.row].ticket_id = l.ticket_id
                  /\ ~tickets[l.row].is_used
                  /\ IF Len(created) < l.quantity
                       THEN /\ pc'[w] = "create_tickets_generate"
                            /\ loc'[w].created = created
                       ELSE /\ resp'[w].status = "ok"
                            /\ resp'[w].created = created
       /\ (/\ pc[w] = "idle"
           /\ Returns(w)
           /\ resp'[w].op = "validate_ticket")
            => \A i \in TicketByIdentifier(resp'[w].ticket_id) : tickets[i].is_used
       /\ (/\ pc[w] = "validate_ticket_event"
           /\ pc'[w] # pc[w])
            => resp'[w].status = "valid"]_vars

\* A batch of two after the failed send of its first unit: the first ticket
\* is persisted and unused, the batch is at its second unit.
C16_Witness ==
  \E w \in Procs :
    /\ pc[w] = "create_tickets_generate"
    /\ loc[w].sent = <<FALSE>>
    /\ Len(loc[w].created) = 1
    /\ \E i \in TicketByIdentifier(loc[w].created[1]) :
         /\ tickets[i].event_id = loc[w].event_id
         /\ ~tickets[i].is_used
         /\ tickets[i].used_at = Null

\* C17: the answer of a batch tells, for each ticket, whether its send
\* succeeded: an answer given after a failed send carries the results.
C17_SendResultReported ==
  [][\A w \in Procs :
       (/\ pc[w] = "create_tickets_send"
        /\ Returns(w)
        /\ resp'[w].status = "ok"
        /\ \E i \in DOMAIN loc[w].sent : ~loc[w].sent[i])
         => /\ "sent" \in DOMAIN resp'[w]
            /\ \A i \in DOMAIN loc[w].sent : resp'[w].sent[i] = loc[w].sent[i]]_vars

\* C18: every ticket row carries the QR path and the image path of its
\* ticket_id; a row is added only by the insert of a unit, and at that step
\* both files are on disk; a unit whose QR or image fails adds no row.
C18_RowOnlyAfterQrAndImage ==
  [][/\ \A i \in DOMAIN tickets' :
          /\ tickets'[i].qr_code_path = QrPath(tickets'[i].ticket_id)
          /\ tickets'[i].ticket_image_path = ImagePath(tickets'[i].ticket_id)
     /\ (DOMAIN tickets' \ DOMAIN tickets # {})
          => \E w \in Procs :
               /\ pc[w] = "create_tickets_insert"
               /\ pc'[w] = "create_tickets_refresh"
               /\ QrPath(loc[w].ticket_id) \in files
               /\ ImagePath(loc[w].ticket_id) \in files
               /\ tickets'[loc'[w].row].ticket_id = loc[w].ticket_id
     /\ \A w \in Procs :
          (pc[w] = "create_tickets_generate" /\ pc'[w] # pc[w])
            => /\ tickets' = tickets
               /\ pc'[w] = "create_tickets_insert"
                    => /\ QrPath(loc'[w].ticket_id) \in files'
                       /\ ImagePath(loc'[w].ticket_id) \in files']_vars

\* A unit whose rendering failed: its QR file is on disk, its image is not,
\* and no row carries its ticket_id.
C18_Witness ==
  \E w \in Procs :
    /\ resp[w].status = "error"
    /\ resp[w].op = "create_tickets"
    /\ "cause" \in DOMAIN resp[w]
    /\ resp[w].cause = "render_ticket_image"
    /\ QrPath(resp[w].ticket_id) \in files
    /\ ImagePath(resp[w].ticket_id) \notin files
    /\ TicketByIdentifier(resp[w].ticket_id) = {}

\* C19: no step of resend_ticket changes a table or a file; for an existing
\* ticket it answers "ok" or "send_failed", for an id without a row
\* "not_found".
C19_ResendChangesNothing ==
  [][\A w \in Procs :
       /\ (pc[w] = "idle" /\ pc'[w] = "resend_ticket_send")
            => /\ UNCHANGED Store
               /\ loc'[w].row \in DOMAIN tickets
       /\ (/\ pc[w] = "idle"
           /\ Returns(w)
           /\ resp'[w].op = "resend_ticket")
            => /\ resp'[w].status = "not_found"
               /\ resp'[w].row \notin DOMAIN tickets
               /\ UNCHANGED Store
       /\ (pc[w] = "resend_ticket_send" /\ pc'[w] # pc[w])
            => /\ UNCHANGED Store
               /\ resp'[w].status \in {"ok", "send_failed"}]_vars

\* A failed resend of a redeemed ticket: the ticket is still redeemed.
C19_Witness ==
  \E w \in Procs :
    /\ resp[w].status = "send_failed"
    /\ resp[w].op = "resend_ticket"
    /\ resp[w].row \in DOMAIN tickets
    /\ tickets[resp[w].row].is_used
    /\ tickets[resp[w].row].used_at # Null

\* C20: delete_ticket of an existing ticket removes its row and answers
\* "ok" whatever the removal of its files does; its first step removes at
\* most the two files of the ticket, its second step the row and nothing
\* else.
C20_DeleteTicketRemovesRow ==
  [][\A w \in Procs :
       /\ (/\ pc[w] = "idle"
           /\ Returns(w)
           /\ resp'[w].op = "delete_ticket")
            => /\ resp'[w].status = "not_found"
               /\ resp'[w].row \notin DOMAIN tickets
               /\ UNCHANGED Store
       /\ (pc[w] = "idle" /\ pc'[w] = "delete_ticket_commit")
            => LET t == tickets[loc'[w].row]
               IN /\ UNCHANGED <<events, tickets>>
                  /\ files' \subseteq files
                  /\ files \ files' \subseteq {t.qr_code_path, t.ticket_image_path}
       /\ (pc[w] = "delete_ticket_commit" /\ pc'[w] # pc[w])
            => /\ resp'[w].status = "ok"
               /\ loc[w].row \notin DOMAIN tickets'
               /\ \A i \in DOMAIN tickets \ {loc[w].row} :
                    i \in DOMAIN tickets' /\ tickets'[i] = tickets[i]
               /\ UNCHANGED <<events, files>>]_vars

\* A ticket deleted although the removal of its QR file failed: the row is
\* gone, the QR file (and the image, which was not tried) is still there.
C20_Witness ==
  \E w \in Procs :
    /\ resp[w].status = "ok"
    /\ resp[w].op = "delete_ticket"
    /\ resp[w].row \notin DOMAIN tickets
    /\ TicketByIdentifier(resp[w].ticket_id) = {}
    /\ QrPath(resp[w].ticket_id) \in files
    /\ ImagePath(resp[w].ticket_id) \in files

\* C21: toggle_event_active of an existing event, locked or not, answers
\* "ok" and inverts is_active; is_locked, the design path and the six
\* descriptive fields keep their values, no other row and no file changes
\* (so a second toggle gives back the event the first one found); for an id
\* without a row it answers "not_found" and changes nothing.
C21_ToggleInvertsActiveOnly ==
  [][\A w \in Procs :
       /\ (pc[w] = "idle" /\ pc'[w] = "toggle_event_active_commit")
            => /\ UNCHANGED Store
               /\ loc'[w].event_id \in DOMAIN events
       /\ (/\ pc[w] = "idle"
           /\ Returns(w)
           /\ resp'[w].op = "toggle")
            => /\ resp'[w].status = "not_found"
               /\ resp'[w].event_id \notin DOMAIN events
               /\ UNCHANGED Store
       /\ (pc[w] = "toggle_event_active_commit" /\ pc'[w] # pc[w])
            => LET e == loc[w].event_id
               IN /\ resp'[w].status = "ok"
                  /\ e \in DOMAIN events
                  /\ events' = [events EXCEPT ![e].is_active = ~events[e].is_active]
                  /\ [events' EXCEPT ![e].is_active = ~events'[e].is_active] = events
                  /\ UNCHANGED <<tickets, files>>]_vars

\* A locked event that a toggle has made inactive: it is still locked.
C21_Witness ==
  \E w \in Procs :
    /\ resp[w].status = "ok"
    /\ resp[w].op = "toggle"
    /\ resp[w].event_id \in DOMAIN events
    /\ events[resp[w].event_id].is_locked
    /\ ~events[resp[w].event_id].is_active
    /\ TicketsOfEvent(resp[w].event_id) # {}

\* C22: every row of table tickets references a row of table events: its
\* event_id is the id of an event that exists now.
C22_TicketsReferenceExistingEvent ==
  \A i \in DOMAIN tickets : tickets[i].event_id \in DOMAIN events

\* The part of C22 that the code keeps: no step changes the event_id of a
\* ticket whose row it neither deletes nor inserts.
C22_EventReferenceIsNeverAssigned ==
  [][\A i \in DOMAIN tickets \cap DOMAIN tickets' :
       tickets'[i].ticket_id = tickets[i].ticket_id
         => tickets'[i].event_id = tickets[i].event_id]_vars

\* C23: every answer of the two statistics routes has
\* 0 <= used_tickets <= total_tickets and
\* remaining_tickets = total_tickets - used_tickets >= 0, and an answer of
\* the global route has active_events <= total_events.
C23_StatsAreConsistent ==
  \A w \in Procs :
    (resp[w].status = "ok" /\ resp[w].op \in {"dashboard", "event_stats"})
      => /\ 0 <= resp[w].used_tickets
         /\ resp[w].used_tickets <= resp[w].total_tickets
         /\ resp[w].remaining_tickets = resp[w].total_tickets - resp[w].used_tickets
         /\ resp[w].remaining_tickets >= 0
         /\ resp[w].op = "dashboard" => resp[w].active_events <= resp[w].total_events

\* The part of C23 that the code keeps: the counts of a statistics call
\* that no other request overlaps are those of the store, which satisfy the
\* inequalities.
C23_StatsOfQuietStore ==
  \A w \in Procs :
    (resp[w].status = "ok" /\ resp[w].op \in {"dashboard", "event_stats"})
      => /\ resp[w].used_tickets \in 0..resp[w].total_tickets
         /\ resp[w].remaining_tickets = resp[w].total_tickets - resp[w].used_tickets
         /\ resp[w].op = "dashboard"
              => /\ resp[w].total_events = Cardinality(DOMAIN events)
                 /\ resp[w].active_events <= resp[w].total_events
                 /\ resp[w].total_tickets = Cardinality(DOMAIN tickets)
                 /\ resp[w].used_tickets = Cardinality(UsedTickets(0))
         /\ resp[w].op = "event_stats"
              => /\ resp[w].total_tickets = Cardinality(TicketsOfEvent(resp[w].event_id))
                 /\ resp[w].used_tickets = Cardinality(UsedTickets(resp[w].event_id))

\* C24: a unit of a batch that fails (generate_qr_code, render_ticket_image
\* or the insert) ends the request and leaves both tables as they are: each
\* unit before it has its row, of this event, unused, and had its message
\* attempted; the event is locked; the failed unit and the units after it
\* have no row.
C24_FailedUnitKeepsEarlierUnits ==
  [][\A w \in Procs :
       (/\ pc[w] \in {"create_tickets_generate", "create_tickets_insert"}
        /\ Returns(w)
        /\ resp'[w].status = "error")
         => LET l == loc[w]
                ofBatch == {i \in DOMAIN tickets' :
                              \E n \in DOMAIN l.created :
                                tickets'[i].ticket_id = l.created[n]}
            IN /\ resp'[w].cause \in {"generate_qr_code", "render_ticket_image",
                                      "IntegrityError"}
               /\ pc'[w] = "idle"
               /\ UNCHANGED <<events, tickets>>
               /\ Cardinality(ofBatch) = Len(l.created)
               /\ \A i \in ofBatch :
                    /\ tickets'[i].event_id = l.event_id
                    /\ ~tickets'[i].is_used
                    /\ tickets'[i].used_at = Null
               /\ Len(l.sent) = Len(l.created)
               /\ l.event_id \in DOMAIN events'
               /\ events'[l.event_id].is_locked]_vars

\* A batch has failed at the rendering of a unit, which left its QR file and
\* no row, while the only ticket, issued a second earlier for the same event,
\* is persisted and unused and the event is locked.
C24_Witness ==
  \E w \in Procs :
    /\ resp[w].status = "error"
    /\ resp[w].op = "create_tickets"
    /\ "cause" \in DOMAIN resp[w]
    /\ resp[w].cause = "render_ticket_image"
    /\ TicketByIdentifier(resp[w].ticket_id) = {}
    /\ QrPath(resp[w].ticket_id) \in files
    /\ Cardinality(DOMAIN tickets) = 1
    /\ \A i \in DOMAIN tickets :
         /\ tickets[i].event_id = resp[w].event_id
         /\ ~tickets[i].is_used
         /\ tickets[i].ticket_id[1] < resp[w].ticket_id[1]
    /\ events[resp[w].event_id].is_locked

\* C25: the answer of validate_ticket depends only on whether a row carries
\* the identifier and on that row's is_used: without a row it is "invalid",
\* with a used row "already_used", and with an unused row the scan goes on
\* to redeem it and is answered "valid".
C25_IssuedTicketScansValid ==
  [][\A w \in Procs :
       /\ (/\ pc[w] = "idle"
           /\ Returns(w)
           /\ resp'[w].op = "validate_ticket")
            => LET found == TicketByIdentifier(resp'[w].ticket_id)
               IN IF found = {}
                    THEN resp'[w].status = "invalid"
                    ELSE /\ resp'[w].status = "already_used"
                         /\ \A i \in found : tickets[i].is_used
       /\ (pc[w] = "idle" /\ pc'[w] = "validate_ticket_commit")
            => /\ TicketByIdentifier(loc'[w].ticket_id) # {}
               /\ \A i \in TicketByIdentifier(loc'[w].ticket_id) : ~tickets[i].is_used
       /\ (/\ pc[w] \in {"validate_ticket_commit", "validate_ticket_refresh",
                          "validate_ticket_event"}
           /\ Returns(w))
            => resp'[w].status = "valid"]_vars

====
